---- MODULE Spec2Model ----
(***************************************************************************)
(* Model of frateto.  The core is the query library                        *)
(* (src/src/queries.py): nine read functions over a SQLite store of        *)
(* European Parliament roll-call votes.  Around it stand the agent's SQL   *)
(* tool (src/src/agent/agent.py), the web front end (src/src/main.py, with *)
(* src/src/runner.py) and the scraper that builds the store                *)
(* (src/db_stuff/howTheyVote.py).                                          *)
(*                                                                         *)
(* The store is the variable db, a record of tables, each table a set of   *)
(* rows.  A call of a query function is one action: it reads db, may hit a *)
(* store failure (the input fault), and leaves its outcome in result,      *)
(* raised, stmts and conn_open.  The caller may make the same call once    *)
(* more; earlier then holds what the first call gave.                      *)
(*                                                                         *)
(* Encodings.  SQL NULL / Python None is the string NULL, which no column  *)
(* value of the model equals.  Topic labels, names and keywords are        *)
(* sequences of one-character strings, so LIKE can be computed.  A         *)
(* percentage the code rounds to two decimals is kept in hundredths        *)
(* (5000 is 50.0).  An f-string is the tuple of its pieces.                *)
(***************************************************************************)
EXTENDS Integers, Sequences, FiniteSets, TLC

VARIABLES db, op, args, fault, result, raised, stmts, conn_open, earlier,
          active_sessions, now, issued, response,
          session_service, calls,
          scraper

\* main.py: the session table, the clock, the number of uuids handed out
\* and the response to the last request
server_vars == <<active_sessions, now, issued, response>>

\* runner.py: the session service and the run_agent calls in flight
runner_vars == <<session_service, calls>>

\* the store and the last call of a query function or SQL tool
call_vars == <<op, args, fault, result, raised, stmts, conn_open, earlier>>

vars == <<db, call_vars, server_vars, runner_vars, scraper>>

\* ---------------------------------------------------------------- bounds
MaxVotes == 3
MaxMember == 2
MaxLabelLen == 2
MaxKeyLen == 1
CapVotes == 22

\* ------------------------------------------------------- program constants
TopicLimit == 20

NULL == "NULL"
NoException == "none"
ConnectError == "unable to open database file"
ExecError == "database is locked"

Positions == <<"FOR", "AGAINST", "ABSTENTION", "DID_NOT_VOTE">>

\* ------------------------------------------------------------- arithmetic
Abs(x) == IF x < 0 THEN -x ELSE x

\* ROUND(num * 100.0 / den, 2) in hundredths, halves away from zero
\* (num, den >= 0, den > 0)
Round2Pct(num, den) == (2 * num * 10000 + den) \div (2 * den)

RECURSIVE SumOver(_, _)
SumOver(S, f) ==
    IF S = {} THEN 0
    ELSE LET x == CHOOSE y \in S : TRUE IN f[x] + SumOver(S \ {x}, f)

Range(s) == {s[i] : i \in 1..Len(s)}

\* ------------------------------------------------------------ result rows
\* ORDER BY ... LIMIT n.  key[r] is a tuple of integers compared
\* lexicographically; rows with equal keys come in any order (SQL leaves it
\* open), so the operator yields the set of row sequences the engine may
\* return.  A negative n is no limit (SQLite).
RECURSIVE LexLess(_, _)
LexLess(a, b) ==
    IF a = <<>> \/ b = <<>> THEN FALSE
    ELSE IF a[1] # b[1] THEN a[1] < b[1]
    ELSE LexLess(Tail(a), Tail(b))

RECURSIVE OrderByLimit(_, _, _)
OrderByLimit(rows, key, n) ==
    IF rows = {} \/ n = 0 THEN {<<>>}
    ELSE LET first == {r \in rows : \A q \in rows : ~LexLess(key[q], key[r])}
         IN  UNION {{<<r>> \o t : t \in OrderByLimit(rows \ {r}, key, n - 1)}
                    : r \in first}

\* ------------------------------------------------------------------ store
Vote(id, ts, f, a) ==
    [id |-> id, timestamp |-> ts, display_title |-> <<"vote", id>>,
     count_for |-> f, count_against |-> a, count_abstention |-> 0]

MemberVote(v, m, p, g) ==
    [vote_id |-> v, member_id |-> m, position |-> p, group_code |-> g]

Group(c, l, s) == [code |-> c, label |-> l, short_label |-> s]

Concept(id, l) == [id |-> id, label |-> l]

ConceptVote(v, c) == [vote_id |-> v, eurovoc_concept_id |-> c]

Member(id, fn, ln, cc) ==
    [id |-> id, first_name |-> fn, last_name |-> ln, country_code |-> cc]

Country(c, l) == [code |-> c, label |-> l]

Membership(m, g, t, s) ==
    [member_id |-> m, group_code |-> g, term |-> t, start_date |-> s,
     end_date |-> NULL]

DefaultMembers ==
    {Member(1, <<"a">>, <<"b">>, "DEU"), Member(2, <<"b">>, <<"a">>, "FRA")}

DefaultCountries == {Country("DEU", "Germany")}

DefaultGroups == {Group("EPP", "European People's Party", "EPP")}

DefaultConcepts == {Concept("c1", <<"a">>)}

BaseStore ==
    [votes |-> {Vote(1, 1, 1, 1)},
     members |-> DefaultMembers,
     countries |-> DefaultCountries,
     groups |-> DefaultGroups,
     group_memberships |-> {Membership(1, "EPP", 9, 1)},
     member_votes |-> {MemberVote(1, 1, "FOR", "EPP")},
     eurovoc_concepts |-> DefaultConcepts,
     eurovoc_concept_votes |-> {ConceptVote(1, "c1")},
     distinct_separator |-> FALSE]

\* ------------------------------------------------------------- outcomes
EmptyMapping == <<>>

DbError(msg) == [error |-> <<"Database error: ", msg>>]

Returned(ret, log) ==
    [ret |-> ret, exc |-> NoException, stmts |-> log, open |-> FALSE]

\* except Exception as e: return {"error": f"Database error: {str(e)}"}
\* (the handler does not close the connection)
Caught(msg, log, open) ==
    [ret |-> DbError(msg), exc |-> NoException, stmts |-> log, open |-> open]

\* no handler: the exception leaves the function
Propagated(msg, log, open) ==
    [ret |-> EmptyMapping, exc |-> msg, stmts |-> log, open |-> open]

\* the caller has made no call with these arguments before this one
NoEarlier == [called |-> FALSE, ret |-> EmptyMapping, exc |-> NoException]

\* a call starts when the caller holds no outcome of an earlier one
Idle == op = "none"

\* a call can be made from scratch, or once more with the arguments of the
\* call just made, the store answering both times
Callable(name, a, f) ==
    \/ Idle
    \/ op = name /\ args = a /\ fault = 0 /\ f = 0 /\ ~earlier.called

\* a return that empties the votes table
FinishClearingVotes(name, a, f, o) ==
    /\ earlier' = IF Idle THEN NoEarlier
                  ELSE [called |-> TRUE, ret |-> result, exc |-> raised]
    /\ op' = name
    /\ args' = a
    /\ fault' = f
    /\ result' = o.ret
    /\ raised' = o.exc
    /\ stmts' = o.stmts
    /\ conn_open' = o.open
    /\ db' = [db EXCEPT !.votes = {}]
    /\ UNCHANGED <<server_vars, runner_vars, scraper>>

\* the outcome goes to the caller; every statement of the library is a
\* SELECT and no function commits, so the store stays as it is
Finish(name, a, f, o) ==
    /\ earlier' = IF Idle THEN NoEarlier
                  ELSE [called |-> TRUE, ret |-> result, exc |-> raised]
    /\ op' = name
    /\ args' = a
    /\ fault' = f
    /\ result' = o.ret
    /\ raised' = o.exc
    /\ stmts' = o.stmts
    /\ conn_open' = o.open
    /\ UNCHANGED <<db, server_vars, runner_vars, scraper>>

\* the arguments the calls are made with
\* (999999999 is the vote id of the not-found scenario)
VoteIdArgs == (1..MaxVotes) \cup {999999999}

\* limit is any int; SQLite reads a negative LIMIT as no limit
LimitArgs == (-1)..MaxVotes

MemberIdArgs == 1..(MaxMember + 1)

\* sequences over S of length at most n
SeqsUpTo(S, n) == UNION {[1..k -> S] : k \in 0..n}

KeyChars == {"A", "b", "_", "%"}

LabelChars == {"a", "B"}

\* keywords: any string, the empty one and LIKE's wildcards included
KeywordArgs == SeqsUpTo(KeyChars, MaxKeyLen)

\* topic labels: non-empty text
Labels == SeqsUpTo(LabelChars, MaxLabelLen) \ {<<>>}

\* --------------------------------------------------------- text helpers
RECURSIVE JoinLabels(_)
JoinLabels(ls) ==
    IF ls = <<>> THEN <<>>
    ELSE IF Len(ls) = 1 THEN ls[1]
    ELSE ls[1] \o <<";", " ">> \o JoinLabels(Tail(ls))

\* ------------------------------------------------------- get_vote_details
\* labels GROUP_CONCAT sees for the vote: one per link whose concept exists
\* and has a label
TopicLabelRows(vote_id) ==
    {<<ecv, ec>> \in db.eurovoc_concept_votes \X db.eurovoc_concepts :
        ecv.vote_id = vote_id /\ ecv.eurovoc_concept_id = ec.id}

\* GROUP_CONCAT(ec.label, '; '): the order of the labels is the engine's
TopicConcats(vote_id) ==
    {[i \in 1..Len(s) |-> s[i][2].label] :
        s \in OrderByLimit(TopicLabelRows(vote_id),
                          [r \in TopicLabelRows(vote_id) |-> <<0>>], -1)}

get_vote_details(vote_id, f, topics) ==
    IF f = 1 THEN Caught(ConnectError, <<>>, FALSE)
    ELSE IF f = 2 THEN Caught(ExecError, <<"vote_details">>, TRUE)
    ELSE
    LET found == {v \in db.votes : v.id = vote_id}
    IN  IF found = {}
        THEN Returned([error |-> <<"Vote ", vote_id, " not found">>],
                      <<"vote_details">>)
        ELSE LET v == CHOOSE x \in found : TRUE
             IN  Returned(
                   [vote_id |-> v.id,
                    title |-> v.display_title,
                    timestamp |-> v.timestamp,
                    votes_for |-> v.count_for,
                    votes_against |-> v.count_against,
                    abstentions |-> v.count_abstention,
                    policy_topics |->
                        IF topics # <<>> THEN JoinLabels(topics)
                        ELSE <<"No topics available">>,
                    total_participating |->
                        v.count_for + v.count_against + v.count_abstention],
                   <<"vote_details">>)

GetVoteDetails ==
    \E vote_id \in VoteIdArgs, f \in 0..2 :
        /\ Callable("get_vote_details", <<vote_id>>, f)
        /\ \E topics \in TopicConcats(vote_id) :
               Finish("get_vote_details", <<vote_id>>, f,
                      get_vote_details(vote_id, f, topics))

\* ------------------------------------------------- get_controversial_votes
\* the filter without its second condition
ControversialRowsForOnly == {v \in db.votes : v.count_for > 0}

\* WHERE v.count_for > 0 AND v.count_against > 0
ControversialRows == {v \in db.votes : v.count_for > 0 /\ v.count_against > 0}

\* ABS(v.count_for - v.count_against) as margin
Margin(v) == Abs(v.count_for - v.count_against)

\* ROUND(ABS(for - against) * 100.0 / NULLIF(for + against, 0), 2)
MarginPercentage(v) == Round2Pct(Margin(v), v.count_for + v.count_against)

\* ORDER BY margin_percentage ASC, margin ASC: the aliases of the select
\* list, so the first key is the rounded percentage
ControversialKey(v) == <<MarginPercentage(v), Margin(v)>>

ControversialEntry(v) ==
    [vote_id |-> v.id,
     title |-> v.display_title,
     timestamp |-> v.timestamp,
     votes_for |-> v.count_for,
     votes_against |-> v.count_against,
     abstentions |-> v.count_abstention,
     vote_margin |-> Margin(v),
     margin_percentage |-> MarginPercentage(v)]

ControversialResults(limit) ==
    OrderByLimit(ControversialRows,
                 [v \in ControversialRows |-> ControversialKey(v)], limit)

get_controversial_votes(limit, f, rows) ==
    IF f = 1 THEN Caught(ConnectError, <<>>, FALSE)
    ELSE IF f = 2 THEN Caught(ExecError, <<"controversial">>, TRUE)
    ELSE
    LET controversial_votes ==
            [i \in 1..Len(rows) |-> ControversialEntry(rows[i])]
    IN  Returned(
          [controversial_votes |-> controversial_votes,
           count |-> Len(controversial_votes),
           explanation |->
             <<"Votes ordered by smallest margin between FOR and AGAINST votes">>],
          <<"controversial">>)

GetControversialVotes ==
    \E limit \in LimitArgs, f \in 0..2 :
        /\ Callable("get_controversial_votes", <<limit>>, f)
        /\ \E rows \in ControversialResults(limit) :
               Finish("get_controversial_votes", <<limit>>, f,
                      get_controversial_votes(limit, f, rows))

\* ------------------------------------------------ mappings (Python dicts)
Put(m, k, v) == [x \in (DOMAIN m) \cup {k} |-> IF x = k THEN v ELSE m[x]]

\* ---------------------------------------------- get_group_voting_breakdown
\* the lookup without its WHERE clause
VoteInfoAnyRow(vote_id) == db.votes

\* SELECT display_title, timestamp FROM votes WHERE id = ?
VoteInfo(vote_id) == {v \in db.votes : v.id = vote_id}

\* FROM member_votes mv ... WHERE mv.vote_id = ?
VoteRows(vote_id) == {mv \in db.member_votes : mv.vote_id = vote_id}

\* LEFT JOIN groups g ON mv.group_code = g.code (NULL equals nothing)
JoinedGroup(mv) ==
    {g \in db.groups : mv.group_code # NULL /\ g.code = mv.group_code}

\* COALESCE(g.label, 'Non-attached')
PoliticalGroup(mv) ==
    IF \E g \in JoinedGroup(mv) : g.label # NULL
    THEN (CHOOSE g \in JoinedGroup(mv) : TRUE).label
    ELSE "Non-attached"

\* COALESCE(g.short_label, 'NI')
ShortLabel(mv) ==
    IF \E g \in JoinedGroup(mv) : g.short_label # NULL
    THEN (CHOOSE g \in JoinedGroup(mv) : TRUE).short_label
    ELSE "NI"

\* GROUP BY COALESCE(g.label, ..), COALESCE(g.short_label, ..), mv.position
GroupKey(mv) == <<PoliticalGroup(mv), ShortLabel(mv), mv.position>>

GroupKeys(vote_id) == {GroupKey(mv) : mv \in VoteRows(vote_id)}

GroupedRows(vote_id, k) == {mv \in VoteRows(vote_id) : GroupKey(mv) = k}

\* mv.group_code inside the window's PARTITION BY is not a GROUP BY column:
\* SQLite takes it from some row of the group, which one is the engine's
BareGroupCodes(vote_id) ==
    {b \in [GroupKeys(vote_id) -> {mv.group_code : mv \in VoteRows(vote_id)}] :
        \A k \in GroupKeys(vote_id) :
            \E mv \in GroupedRows(vote_id, k) : b[k] = mv.group_code}

\* COALESCE(mv.group_code, 'NI')
PartitionKey(code) == IF code = NULL THEN "NI" ELSE code

\* SUM(COUNT(*)) OVER (PARTITION BY COALESCE(mv.group_code, 'NI'))
PartitionSum(vote_id, bare, k) ==
    LET same == {q \in GroupKeys(vote_id) :
                    PartitionKey(bare[q]) = PartitionKey(bare[k])}
    IN  SumOver(same,
                [q \in same |-> Cardinality(GroupedRows(vote_id, q))])

BreakdownRow(vote_id, bare, k) ==
    [political_group |-> k[1],
     short_label |-> k[2],
     position |-> k[3],
     mep_count |-> Cardinality(GroupedRows(vote_id, k)),
     group_percentage |->
        Round2Pct(Cardinality(GroupedRows(vote_id, k)),
                  PartitionSum(vote_id, bare, k))]

\* text order of the labels and short labels of the model
LabelOrder ==
    <<"DEU", "European People's Party", "FRA", "France", "Germany",
      "Non-attached", "Non-attached Members">>

LabelRank(l) == CHOOSE i \in 1..Len(LabelOrder) : LabelOrder[i] = l

\* CASE mv.position WHEN 'FOR' THEN 1 ... WHEN 'DID_NOT_VOTE' THEN 4 END
PositionRank(p) == CHOOSE i \in 1..Len(Positions) : Positions[i] = p

\* ORDER BY COALESCE(g.label, 'Non-attached'), CASE mv.position ... END
BreakdownResults(vote_id, bare) ==
    LET rows == {BreakdownRow(vote_id, bare, k) : k \in GroupKeys(vote_id)}
    IN  OrderByLimit(rows,
                     [r \in rows |-> <<LabelRank(r.political_group),
                                       PositionRank(r.position)>>],
                     -1)

\* the loop over the result rows: the entry is made by the first row of a
\* group name, positions[position] is assigned, total_meps is added to
RECURSIVE OrganizeByGroup(_, _)
OrganizeByGroup(rows, group_breakdown) ==
    IF rows = <<>> THEN group_breakdown
    ELSE
    LET row == Head(rows)
        group_name == row.political_group
        entry == IF group_name \in DOMAIN group_breakdown
                 THEN group_breakdown[group_name]
                 ELSE [group_short_name |-> row.short_label,
                       positions |-> EmptyMapping,
                       total_meps |-> 0]
        updated == [entry EXCEPT
                      !.positions = Put(@, row.position,
                                        [count |-> row.mep_count,
                                         percentage |-> row.group_percentage]),
                      !.total_meps = @ + row.mep_count]
    IN  OrganizeByGroup(Tail(rows), Put(group_breakdown, group_name, updated))

get_group_voting_breakdown(vote_id, f, rows) ==
    IF f = 1 THEN Caught(ConnectError, <<>>, FALSE)
    ELSE IF f = 2 THEN Caught(ExecError, <<"vote_exists">>, TRUE)
    ELSE
    LET vote_info == VoteInfo(vote_id)
    IN  IF vote_info = {}
        THEN Returned([error |-> <<"Vote ", vote_id, " not found">>],
                      <<"vote_exists">>)
        ELSE IF f = 3
        THEN Caught(ExecError, <<"vote_exists", "group_breakdown">>, TRUE)
        ELSE LET v == CHOOSE x \in vote_info : TRUE
             IN  Returned(
                   [vote_id |-> vote_id,
                    vote_title |-> v.display_title,
                    vote_timestamp |-> v.timestamp,
                    group_breakdown |-> OrganizeByGroup(rows, EmptyMapping),
                    explanation |->
                      <<"Shows how MEPs from each political group voted (groups as they were at time of vote)">>],
                   <<"vote_exists", "group_breakdown">>)

GetGroupVotingBreakdown ==
    \E vote_id \in VoteIdArgs, f \in 0..3 :
        /\ Callable("get_group_voting_breakdown", <<vote_id>>, f)
        /\ \E bare \in BareGroupCodes(vote_id) :
               \E rows \in BreakdownResults(vote_id, bare) :
                   Finish("get_group_voting_breakdown", <<vote_id>>, f,
                          get_group_voting_breakdown(vote_id, f, rows))

\* ---------------------------------------------------- search_votes_by_topic
\* SQLite's LIKE folds the case of ASCII letters
Lower(c) == CASE c = "A" -> "a" [] c = "B" -> "b" [] OTHER -> c

\* text LIKE pattern: % is any run of characters, _ any one character
RECURSIVE Like(_, _)
Like(text, pattern) ==
    IF pattern = <<>> THEN text = <<>>
    ELSE IF Head(pattern) = "%"
    THEN Like(text, Tail(pattern))
         \/ (text # <<>> /\ Like(Tail(text), pattern))
    ELSE /\ text # <<>>
         /\ (Head(pattern) = "_" \/ Lower(Head(pattern)) = Lower(Head(text)))
         /\ Like(Tail(text), Tail(pattern))

\* f"%{topic_keyword}%"
TopicPattern(topic_keyword) == <<"%">> \o topic_keyword \o <<"%">>

\* JOIN eurovoc_concept_votes JOIN eurovoc_concepts WHERE ec.label LIKE ?
MatchingConcepts(v, topic_keyword) ==
    {ec \in db.eurovoc_concepts :
        /\ \E ecv \in db.eurovoc_concept_votes :
              ecv.vote_id = v.id /\ ecv.eurovoc_concept_id = ec.id
        /\ Like(ec.label, TopicPattern(topic_keyword))}

\* GROUP BY v.id: one row per vote that has a matching concept
TopicVotes(topic_keyword) ==
    {v \in db.votes : MatchingConcepts(v, topic_keyword) # {}}

\* COUNT(DISTINCT mv.member_id) over LEFT JOIN member_votes
ParticipatingMeps(v) ==
    Cardinality({mv.member_id : mv \in VoteRows(v.id)})

\* GROUP_CONCAT(DISTINCT ec.label, '; '): each label once, in the engine's
\* order
MatchingTopics(v, topic_keyword) ==
    LET labels == {ec.label : ec \in MatchingConcepts(v, topic_keyword)}
    IN  {JoinLabels(s) :
            s \in OrderByLimit(labels, [l \in labels |-> <<0>>], -1)}

TopicConcatChoices(topic_keyword) ==
    LET vs == TopicVotes(topic_keyword)
        all == UNION {MatchingTopics(v, topic_keyword) : v \in vs}
    IN  {c \in [{v.id : v \in vs} -> all] :
            \A v \in vs : c[v.id] \in MatchingTopics(v, topic_keyword)}

\* ORDER BY v.timestamp DESC LIMIT 20
TopicResults(topic_keyword) ==
    OrderByLimit(TopicVotes(topic_keyword),
                 [v \in TopicVotes(topic_keyword) |-> <<-v.timestamp>>],
                 TopicLimit)

TopicEntry(v, topics) ==
    [vote_id |-> v.id,
     title |-> v.display_title,
     timestamp |-> v.timestamp,
     votes_for |-> v.count_for,
     votes_against |-> v.count_against,
     abstentions |-> v.count_abstention,
     participating_meps |-> ParticipatingMeps(v),
     related_topics |-> topics]

\* SQLite refuses the statement when it prepares it: a DISTINCT aggregate
\* takes one argument, and GROUP_CONCAT(DISTINCT ec.label, '; ') has two
\* (seen with SQLite 3.40.1).  db.distinct_separator is TRUE for an engine
\* that would accept the statement.
DistinctError == "DISTINCT aggregates must have exactly one argument"

search_votes_by_topic(topic_keyword, f, rows, concat) ==
    IF f = 1 THEN Caught(ConnectError, <<>>, FALSE)
    ELSE IF f = 2 THEN Caught(ExecError, <<"topic_search">>, TRUE)
    ELSE IF ~db.distinct_separator
    THEN Caught(DistinctError, <<"topic_search">>, TRUE)
    ELSE IF rows = <<>>
    THEN Returned(
           [topic_keyword |-> topic_keyword,
            votes |-> <<>>,
            count |-> 0,
            message |-> <<"No votes found related to '", topic_keyword, "'">>],
           <<"topic_search">>)
    ELSE LET topic_votes ==
                 [i \in 1..Len(rows) |->
                     TopicEntry(rows[i], concat[rows[i].id])]
         IN  Returned(
               [topic_keyword |-> topic_keyword,
                votes |-> topic_votes,
                count |-> Len(topic_votes),
                explanation |->
                  <<"Votes related to '", topic_keyword,
                    "' ordered by most recent first">>],
               <<"topic_search">>)

SearchVotesByTopic ==
    \E topic_keyword \in KeywordArgs, f \in 0..2 :
        /\ Callable("search_votes_by_topic", <<topic_keyword>>, f)
        /\ \E rows \in TopicResults(topic_keyword) :
               \E concat \in TopicConcatChoices(topic_keyword) :
                   Finish("search_votes_by_topic", <<topic_keyword>>, f,
                          search_votes_by_topic(topic_keyword, f, rows, concat))

\* --------------------------------------------- get_country_voting_patterns
\* FROM member_votes mv JOIN members m ON mv.member_id = m.id
\*                      JOIN countries c ON m.country_code = c.code
CountryJoin(vote_id) ==
    {<<mv, c>> \in VoteRows(vote_id) \X db.countries :
        \E m \in db.members : m.id = mv.member_id /\ m.country_code = c.code}

\* GROUP BY c.label, c.code, mv.position
CountryKey(j) == <<j[2].label, j[2].code, j[1].position>>

CountryKeys(vote_id) == {CountryKey(j) : j \in CountryJoin(vote_id)}

CountryCount(vote_id, k) ==
    Cardinality({j \in CountryJoin(vote_id) : CountryKey(j) = k})

\* SUM(COUNT(*)) OVER (PARTITION BY c.code)
CountryPartitionSum(vote_id, k) ==
    LET same == {q \in CountryKeys(vote_id) : q[2] = k[2]}
    IN  SumOver(same, [q \in same |-> CountryCount(vote_id, q)])

CountryRow(vote_id, k) ==
    [country |-> k[1],
     country_code |-> k[2],
     position |-> k[3],
     mep_count |-> CountryCount(vote_id, k),
     country_percentage |->
        Round2Pct(CountryCount(vote_id, k), CountryPartitionSum(vote_id, k))]

\* ORDER BY c.label, CASE mv.position ... END
CountryResults(vote_id) ==
    LET rows == {CountryRow(vote_id, k) : k \in CountryKeys(vote_id)}
    IN  OrderByLimit(rows,
                     [r \in rows |-> <<LabelRank(r.country),
                                       PositionRank(r.position)>>],
                     -1)

RECURSIVE OrganizeByCountry(_, _)
OrganizeByCountry(rows, country_breakdown) ==
    IF rows = <<>> THEN country_breakdown
    ELSE
    LET row == Head(rows)
        country_name == row.country
        entry == IF country_name \in DOMAIN country_breakdown
                 THEN country_breakdown[country_name]
                 ELSE [country_code |-> row.country_code,
                       positions |-> EmptyMapping,
                       total_meps |-> 0]
        updated == [entry EXCEPT
                      !.positions = Put(@, row.position,
                                        [count |-> row.mep_count,
                                         percentage |-> row.country_percentage]),
                      !.total_meps = @ + row.mep_count]
    IN  OrganizeByCountry(Tail(rows),
                          Put(country_breakdown, country_name, updated))

get_country_voting_patterns(vote_id, f, rows) ==
    IF f = 1 THEN Caught(ConnectError, <<>>, FALSE)
    ELSE IF f = 2 THEN Caught(ExecError, <<"vote_exists">>, TRUE)
    ELSE
    LET vote_info == VoteInfo(vote_id)
    IN  IF vote_info = {}
        THEN Returned([error |-> <<"Vote ", vote_id, " not found">>],
                      <<"vote_exists">>)
        ELSE IF f = 3
        THEN Caught(ExecError, <<"vote_exists", "country_breakdown">>, TRUE)
        ELSE LET v == CHOOSE x \in vote_info : TRUE
             IN  Returned(
                   [vote_id |-> vote_id,
                    vote_title |-> v.display_title,
                    country_breakdown |-> OrganizeByCountry(rows, EmptyMapping),
                    explanation |->
                      <<"Shows how MEPs from each EU country voted">>],
                   <<"vote_exists", "country_breakdown">>)

GetCountryVotingPatterns ==
    \E vote_id \in VoteIdArgs, f \in 0..3 :
        /\ Callable("get_country_voting_patterns", <<vote_id>>, f)
        /\ \E rows \in CountryResults(vote_id) :
               Finish("get_country_voting_patterns", <<vote_id>>, f,
                      get_country_voting_patterns(vote_id, f, rows))

\* ------------------------------------------------------------ search_meps
\* WHERE first_name LIKE ? OR last_name LIKE ?   (no ORDER BY)
MepMatches(name) ==
    {m \in db.members :
        \/ Like(m.first_name, TopicPattern(name))
        \/ Like(m.last_name, TopicPattern(name))}

MepRow(m) == <<m.id, m.first_name, m.last_name, m.country_code>>

MepResults(name) ==
    OrderByLimit(MepMatches(name), [m \in MepMatches(name) |-> <<0>>], -1)

\* no try/except: an error of connect or execute leaves the function
search_meps(name, f, rows) ==
    IF f = 1 THEN Propagated(ConnectError, <<>>, FALSE)
    ELSE IF f = 2 THEN Propagated(ExecError, <<"search_meps">>, TRUE)
    ELSE Returned([meps |-> [i \in 1..Len(rows) |-> MepRow(rows[i])]],
                  <<"search_meps">>)

SearchMeps ==
    \E name \in KeywordArgs, f \in 0..2 :
        /\ Callable("search_meps", <<name>>, f)
        /\ \E rows \in MepResults(name) :
               Finish("search_meps", <<name>>, f, search_meps(name, f, rows))

\* -------------------------------------------------------- get_recent_votes
RecentVoteRow(v) ==
    <<v.id, v.timestamp, v.display_title,
      v.count_for, v.count_against, v.count_abstention>>

\* the same rows, oldest first
RecentResultsAscending(limit) ==
    OrderByLimit(db.votes, [v \in db.votes |-> <<v.timestamp>>], limit)

\* ORDER BY timestamp DESC LIMIT ?
RecentResults(limit) ==
    OrderByLimit(db.votes, [v \in db.votes |-> <<-v.timestamp>>], limit)

\* no try/except here either
get_recent_votes(limit, f, rows) ==
    IF f = 1 THEN Propagated(ConnectError, <<>>, FALSE)
    ELSE IF f = 2 THEN Propagated(ExecError, <<"recent_votes">>, TRUE)
    ELSE Returned(
           [recent_votes |-> [i \in 1..Len(rows) |-> RecentVoteRow(rows[i])]],
           <<"recent_votes">>)

GetRecentVotes ==
    \E limit \in LimitArgs, f \in 0..2 :
        /\ Callable("get_recent_votes", <<limit>>, f)
        /\ \E rows \in RecentResults(limit) :
               Finish("get_recent_votes", <<limit>>, f,
                      get_recent_votes(limit, f, rows))

\* -------------------------------------------------- get_mep_voting_history
\* the join without its WHERE clause
HistoryJoinAnyMember(member_id) ==
    {<<mv, v>> \in db.member_votes \X db.votes : mv.vote_id = v.id}

\* FROM member_votes mv JOIN votes v ON mv.vote_id = v.id WHERE mv.member_id = ?
HistoryJoin(member_id) ==
    {<<mv, v>> \in db.member_votes \X db.votes :
        mv.member_id = member_id /\ mv.vote_id = v.id}

\* ORDER BY v.timestamp DESC LIMIT ?
HistoryResults(member_id, limit) ==
    OrderByLimit(HistoryJoin(member_id),
                 [j \in HistoryJoin(member_id) |-> <<-j[2].timestamp>>],
                 limit)

\* LEFT JOIN groups g ON mv.group_code = g.code: g.label, or "Non-attached"
\* from the row[11] or "Non-attached" of the formatting loop
HistoryGroupName(mv) ==
    IF \E g \in JoinedGroup(mv) : g.label # NULL
    THEN (CHOOSE g \in JoinedGroup(mv) : TRUE).label
    ELSE "Non-attached"

HistoryEntry(j) ==
    [vote_id |-> j[2].id,
     vote_title |-> j[2].display_title,
     timestamp |-> j[2].timestamp,
     mep_position |-> j[1].position,
     total_for |-> j[2].count_for,
     total_against |-> j[2].count_against,
     total_abstention |-> j[2].count_abstention,
     mep_group_at_time |-> j[1].group_code,
     group_name |-> HistoryGroupName(j[1])]

\* position_counts[pos] = position_counts.get(pos, 0) + 1
RECURSIVE PositionCounts(_, _)
PositionCounts(votes, position_counts) ==
    IF votes = <<>> THEN position_counts
    ELSE LET pos == Head(votes).mep_position
             old == IF pos \in DOMAIN position_counts
                    THEN position_counts[pos] ELSE 0
         IN  PositionCounts(Tail(votes), Put(position_counts, pos, old + 1))

MepName(m) == <<m.first_name, " ", m.last_name>>

\* the lookup without its WHERE clause
MemberRowAny(member_id) == db.members

\* SELECT ... FROM members WHERE id = ?
MemberRow(member_id) == {m \in db.members : m.id = member_id}

get_mep_voting_history(member_id, limit, f, rows) ==
    IF f = 1 THEN Caught(ConnectError, <<>>, FALSE)
    ELSE IF f = 2 THEN Caught(ExecError, <<"member_exists">>, TRUE)
    ELSE
    LET mep_info == MemberRow(member_id)
    IN  IF mep_info = {}
        THEN Returned([error |-> <<"MEP with ID ", member_id, " not found">>],
                      <<"member_exists">>)
        ELSE IF f = 3
        THEN Caught(ExecError, <<"member_exists", "voting_history">>, TRUE)
        ELSE LET m == CHOOSE x \in mep_info : TRUE
                 votes == [i \in 1..Len(rows) |-> HistoryEntry(rows[i])]
             IN  Returned(
                   [member_id |-> member_id,
                    mep_name |-> MepName(m),
                    country |-> m.country_code,
                    recent_votes |-> votes,
                    votes_analyzed |-> Len(votes),
                    voting_pattern_summary |->
                        PositionCounts(votes, EmptyMapping),
                    explanation |->
                      <<"Recent voting history for ", MepName(m),
                        " from ", m.country_code>>],
                   <<"member_exists", "voting_history">>)

GetMepVotingHistory ==
    \E member_id \in MemberIdArgs, limit \in LimitArgs, f \in 0..3 :
        /\ Callable("get_mep_voting_history", <<member_id, limit>>, f)
        /\ \E rows \in HistoryResults(member_id, limit) :
               Finish("get_mep_voting_history", <<member_id, limit>>, f,
                      get_mep_voting_history(member_id, limit, f, rows))

\* --------------------------------------------------------- get_mep_details
\* Python's round(): to the nearest, halves to even; num / den >= 0
RoundHalfEven(num, den) ==
    LET q == num \div den
        r == num % den
    IN  IF 2 * r < den THEN q
        ELSE IF 2 * r > den THEN q + 1
        ELSE IF q % 2 = 0 THEN q ELSE q + 1

MemberStatements ==
    <<"member", "country", "current_group", "vote_stats",
      "available_votes", "top_topics", "group_history">>

\* SELECT label FROM countries WHERE code = ?; the code itself if no row
CountryLabel(m) ==
    IF \E c \in db.countries : c.code = m.country_code
    THEN (CHOOSE c \in db.countries : c.code = m.country_code).label
    ELSE m.country_code

MembershipsOf(member_id) ==
    {gm \in db.group_memberships : gm.member_id = member_id}

\* the same rows, oldest first
MembershipResultsAscending(member_id, n) ==
    OrderByLimit(MembershipsOf(member_id),
                 [gm \in MembershipsOf(member_id) |->
                     <<gm.start_date, gm.term>>],
                 n)

\* ORDER BY gm.start_date DESC, gm.term DESC LIMIT n
MembershipResults(member_id, n) ==
    OrderByLimit(MembershipsOf(member_id),
                 [gm \in MembershipsOf(member_id) |->
                     <<-gm.start_date, -gm.term>>],
                 n)

\* LEFT JOIN groups g ON gm.group_code = g.code
MembershipGroup(gm, column) ==
    IF \E g \in db.groups : gm.group_code # NULL /\ g.code = gm.group_code
    THEN (CHOOSE g \in db.groups : g.code = gm.group_code)[column]
    ELSE NULL

MemberVotesOf(member_id) ==
    {mv \in db.member_votes : mv.member_id = member_id}

\* COUNT(*) and the four SUM(CASE WHEN position = .. THEN 1 ELSE 0 END):
\* a SUM over no rows is NULL
PositionSum(member_id, position) ==
    IF MemberVotesOf(member_id) = {} THEN NULL
    ELSE Cardinality({mv \in MemberVotesOf(member_id) :
                         mv.position = position})

\* SELECT MIN(gm.start_date) FROM group_memberships gm WHERE gm.member_id = ?
MinStartDate(member_id) ==
    CHOOSE d \in {gm.start_date : gm \in MembershipsOf(member_id)} :
        \A gm \in MembershipsOf(member_id) : d <= gm.start_date

\* the count without its WHERE clause
TotalAvailableAllVotes(member_id) == Cardinality(db.votes)

\* COUNT(DISTINCT v.id) FROM votes v WHERE v.timestamp >= (the minimum):
\* no membership makes the minimum NULL and the count 0
TotalAvailable(member_id) ==
    IF MembershipsOf(member_id) = {} THEN 0
    ELSE Cardinality({v \in db.votes :
                         v.timestamp >= MinStartDate(member_id)})

\* JOIN eurovoc_concept_votes JOIN eurovoc_concepts
\* WHERE mv.member_id = ? AND mv.position != 'DID_NOT_VOTE' GROUP BY ec.label
TopicJoin(member_id) ==
    {<<mv, ec>> \in MemberVotesOf(member_id) \X db.eurovoc_concepts :
        /\ mv.position # "DID_NOT_VOTE"
        /\ \E ecv \in db.eurovoc_concept_votes :
              ecv.vote_id = mv.vote_id /\ ecv.eurovoc_concept_id = ec.id}

TopTopicRows(member_id) ==
    {[policy_area |-> l,
      votes_count |-> Cardinality({j \in TopicJoin(member_id) :
                                      j[2].label = l})] :
        l \in {j[2].label : j \in TopicJoin(member_id)}}

TopTopicsLimit == 5

GroupHistoryLimit == 3

\* ORDER BY vote_count DESC LIMIT 5
TopTopicResults(member_id) ==
    OrderByLimit(TopTopicRows(member_id),
                 [t \in TopTopicRows(member_id) |-> <<-t.votes_count>>],
                 TopTopicsLimit)

TypeErrorNone == "unsupported operand type(s) for -: 'int' and 'NoneType'"

GroupHistoryEntry(gm) ==
    [group_code |-> gm.group_code,
     group_name |-> IF MembershipGroup(gm, "label") # NULL
                    THEN MembershipGroup(gm, "label") ELSE "Non-attached",
     start_date |-> gm.start_date,
     end_date |-> gm.end_date,
     term |-> gm.term]

CurrentGroupInfo(current) ==
    IF current = <<>>
    THEN [group_code |-> NULL, group_name |-> "Non-attached",
          group_short_name |-> "NI", member_since |-> NULL,
          membership_end |-> NULL, parliamentary_term |-> NULL]
    ELSE LET gm == current[1]
         IN  [group_code |-> gm.group_code,
              group_name |-> MembershipGroup(gm, "label"),
              group_short_name |-> MembershipGroup(gm, "short_label"),
              member_since |-> gm.start_date,
              membership_end |-> gm.end_date,
              parliamentary_term |-> gm.term]

\* round((x / total) * 100, 1) if total > 0 else 0, in tenths
VotingPercent(member_id, position) ==
    IF MemberVotesOf(member_id) # {}
    THEN RoundHalfEven(PositionSum(member_id, position) * 1000,
                       Cardinality(MemberVotesOf(member_id)))
    ELSE 0

get_mep_details(member_id, f, current, top_topics, group_history) ==
    IF f = 1 THEN Caught(ConnectError, <<>>, FALSE)
    ELSE IF f = 2 THEN Caught(ExecError, SubSeq(MemberStatements, 1, 1), TRUE)
    ELSE
    LET mep_basic == MemberRow(member_id)
    IN  IF mep_basic = {}
        THEN Returned([error |-> <<"MEP with ID ", member_id, " not found">>],
                      SubSeq(MemberStatements, 1, 1))
        ELSE IF f \in 3..6
        THEN Caught(ExecError, SubSeq(MemberStatements, 1, f - 1), TRUE)
        ELSE IF TotalAvailable(member_id) > 0 /\ MemberVotesOf(member_id) = {}
        THEN \* participated = vote_stats[0] - vote_stats[4], with None
             Caught(TypeErrorNone, SubSeq(MemberStatements, 1, 5), TRUE)
        ELSE IF f \in 7..8
        THEN Caught(ExecError, SubSeq(MemberStatements, 1, f - 1), TRUE)
        ELSE
        LET m == CHOOSE x \in mep_basic : TRUE
            total_votes == Cardinality(MemberVotesOf(member_id))
            participation_rate ==
                IF TotalAvailable(member_id) > 0
                THEN RoundHalfEven(
                       (total_votes - PositionSum(member_id, "DID_NOT_VOTE"))
                          * 10000,
                       TotalAvailable(member_id))
                ELSE 0
        IN  Returned(
              [member_id |-> member_id,
               personal_info |->
                  [first_name |-> m.first_name,
                   last_name |-> m.last_name,
                   full_name |-> MepName(m),
                   country_code |-> m.country_code,
                   country_name |-> CountryLabel(m)],
               current_political_group |-> CurrentGroupInfo(current),
               voting_statistics |->
                  [total_votes_cast |-> total_votes,
                   votes_for |-> PositionSum(member_id, "FOR"),
                   votes_against |-> PositionSum(member_id, "AGAINST"),
                   abstentions |-> PositionSum(member_id, "ABSTENTION"),
                   did_not_vote |-> PositionSum(member_id, "DID_NOT_VOTE"),
                   participation_rate_percent |-> participation_rate,
                   voting_percentages |->
                      [for_percent |-> VotingPercent(member_id, "FOR"),
                       against_percent |->
                          VotingPercent(member_id, "AGAINST"),
                       abstention_percent |->
                          VotingPercent(member_id, "ABSTENTION"),
                       absent_percent |->
                          VotingPercent(member_id, "DID_NOT_VOTE")]],
               top_policy_interests |-> top_topics,
               political_group_history |->
                  [i \in 1..Len(group_history) |->
                      GroupHistoryEntry(group_history[i])],
               explanation |->
                  <<"Complete profile for MEP ", MepName(m),
                    " from ", CountryLabel(m)>>],
              MemberStatements)

GetMepDetails ==
    \E member_id \in MemberIdArgs, f \in 0..8 :
        /\ Callable("get_mep_details", <<member_id>>, f)
        /\ \E current \in MembershipResults(member_id, 1) :
               \E top_topics \in TopTopicResults(member_id) :
                   \E group_history \in
                           MembershipResults(member_id, GroupHistoryLimit) :
                       Finish("get_mep_details", <<member_id>>, f,
                              get_mep_details(member_id, f, current,
                                              top_topics, group_history))

\* the caller has the outcome; the next call starts from scratch
ReturnToCaller ==
    /\ ~Idle
    /\ op' = "none"
    /\ args' = <<>>
    /\ fault' = 0
    /\ result' = EmptyMapping
    /\ raised' = NoException
    /\ stmts' = <<>>
    /\ conn_open' = FALSE
    /\ earlier' = NoEarlier
    /\ UNCHANGED <<db, server_vars, runner_vars, scraper>>

\* ------------------------------------------- agent.py: execute_custom_sql
\* A query text is a sequence of pieces, written one after the other.  No
\* keyword of the filter lies across two pieces.
MaxQueryLen == 3

SqlPieces ==
    {" ", ";", "select * FROM votes", "SELECT * FROM votes",
     "SELECT 'created' AS c", "* FROM votes",
     "DROP TABLE votes", "delete FROM votes"}

\* an argument that is no string: None
NoString == <<NULL>>

SqlQueryArgs == SeqsUpTo(SqlPieces, MaxQueryLen) \cup {NoString}

\* str.upper()
UpperPiece(p) ==
    CASE p = "select * FROM votes" -> "SELECT * FROM VOTES"
      [] p = "SELECT * FROM votes" -> "SELECT * FROM VOTES"
      [] p = "SELECT 'created' AS c" -> "SELECT 'CREATED' AS C"
      [] p = "* FROM votes" -> "* FROM VOTES"
      [] p = "DROP TABLE votes" -> "DROP TABLE VOTES"
      [] p = "delete FROM votes" -> "DELETE FROM VOTES"
      [] OTHER -> p

Upper(q) == [i \in 1..Len(q) |-> UpperPiece(q[i])]

RECURSIVE LeftStrip(_)
LeftStrip(q) ==
    IF q # <<>> /\ Head(q) = " " THEN LeftStrip(Tail(q)) ELSE q

RECURSIVE RightStrip(_)
RightStrip(q) ==
    IF q # <<>> /\ q[Len(q)] = " "
    THEN RightStrip(SubSeq(q, 1, Len(q) - 1)) ELSE q

\* str.strip()
Strip(q) == RightStrip(LeftStrip(q))

\* a filter that lets every text through
StartsWithAnything(query_upper) == TRUE

\* query_upper.startswith('SELECT')
StartsWithSelect(query_upper) ==
    /\ query_upper # <<>>
    /\ query_upper[1] \in {"SELECT * FROM VOTES", "SELECT 'CREATED' AS C"}

dangerous_keywords ==
    <<"INSERT", "UPDATE", "DELETE", "DROP", "CREATE", "ALTER", "TRUNCATE">>

\* the keywords that are substrings of an upper-case piece
KeywordsOfPiece(p) ==
    CASE p = "SELECT 'CREATED' AS C" -> {"CREATE"}
      [] p = "DROP TABLE VOTES" -> {"DROP"}
      [] p = "DELETE FROM VOTES" -> {"DELETE"}
      [] OTHER -> {}

\* keyword in query_upper
KeywordIn(keyword, query_upper) ==
    \E i \in 1..Len(query_upper) : keyword \in KeywordsOfPiece(query_upper[i])

\* for keyword in dangerous_keywords: the first one found, or None
ForbiddenKeyword(query_upper) ==
    LET found == {i \in 1..Len(dangerous_keywords) :
                     KeywordIn(dangerous_keywords[i], query_upper)}
    IN  IF found = {} THEN NULL
        ELSE dangerous_keywords[CHOOSE i \in found : \A j \in found : i <= j]

\* the engine skips white space and empty statements before a statement;
\* after it, white space only may follow
RECURSIVE SkipBlank(_)
SkipBlank(q) ==
    IF q # <<>> /\ Head(q) \in {" ", ";"} THEN SkipBlank(Tail(q)) ELSE q

\* the pieces before the first ";"
RECURSIVE FirstStatement(_)
FirstStatement(q) ==
    IF q = <<>> \/ Head(q) = ";" THEN <<>>
    ELSE <<Head(q)>> \o FirstStatement(Tail(q))

\* what follows the first statement and its ";"
AfterFirstStatement(q) ==
    SubSeq(q, Len(FirstStatement(q)) + 2, Len(q))

\* what the engine takes a statement for
StatementKind(s) ==
    LET words == SelectSeq(s, LAMBDA p : p # " ")
    IN  IF words = <<>> THEN "empty"
        ELSE IF words \in {<<"select * FROM votes">>,
                           <<"SELECT * FROM votes">>}
        THEN "select votes"
        ELSE IF words = <<"SELECT 'created' AS c">> THEN "select text"
        ELSE IF words = <<"DROP TABLE votes">> THEN "drop"
        ELSE IF words = <<"delete FROM votes">> THEN "delete"
        ELSE "syntax error"

OneStatementError == "You can only execute one statement at a time."

SyntaxError == "syntax error"

AttributeErrorNone == "'NoneType' object has no attribute 'strip'"

\* SELECT * FROM votes has no ORDER BY: the rows come in any order
AllVotesResults == OrderByLimit(db.votes, [v \in db.votes |-> <<0>>], -1)

\* cursor.execute(sql_query) and fetchall: one statement is compiled and
\* run.  DROP TABLE is committed at once; the rows a DELETE removes come
\* back when the connection is closed without commit.
CursorExecute(sql_query, f, rows) ==
    LET text == SkipBlank(sql_query)
        kind == StatementKind(FirstStatement(text))
        more == LeftStrip(AfterFirstStatement(text)) # <<>>
    IN  IF f = 2 THEN [error |-> ExecError, rows |-> <<>>, store |-> db]
        ELSE IF kind = "syntax error"
        THEN [error |-> SyntaxError, rows |-> <<>>, store |-> db]
        ELSE IF more
        THEN [error |-> OneStatementError, rows |-> <<>>, store |-> db]
        ELSE IF kind = "drop"
        THEN [error |-> NoException, rows |-> <<>>,
              store |-> [db EXCEPT !.votes = {}]]
        ELSE IF kind = "select votes"
        THEN [error |-> NoException, rows |-> rows, store |-> db]
        ELSE IF kind = "select text"
        THEN [error |-> NoException, rows |-> <<[c |-> "created"]>>,
              store |-> db]
        ELSE [error |-> NoException, rows |-> <<>>, store |-> db]

ToolError(msg, sql_query, log, open, store) ==
    [ret |-> [error |-> msg, query |-> sql_query],
     exc |-> NoException, stmts |-> log, open |-> open, store |-> store]

\* stmts: "connect" once sqlite3.connect has returned, then the text handed
\* to cursor.execute
execute_custom_sql(sql_query, f, rows) ==
    IF sql_query = NoString
    THEN ToolError(<<"Database error: ", AttributeErrorNone>>, sql_query,
                   <<>>, FALSE, db)
    ELSE
    LET query_upper == Upper(Strip(sql_query))
    IN  IF ~StartsWithSelect(query_upper)
        THEN ToolError(<<"Only SELECT queries are allowed">>, sql_query,
                       <<>>, FALSE, db)
        ELSE IF ForbiddenKeyword(query_upper) # NULL
        THEN ToolError(<<"Query contains forbidden keyword: ",
                         ForbiddenKeyword(query_upper)>>,
                       sql_query, <<>>, FALSE, db)
        ELSE IF f = 1
        THEN ToolError(<<"SQL error: ", ConnectError>>, sql_query,
                       <<>>, FALSE, db)
        ELSE
        LET run == CursorExecute(sql_query, f, rows)
            column_names == IF run.rows = <<>> THEN <<>>
                            ELSE IF "id" \in DOMAIN run.rows[1]
                            THEN <<"id", "timestamp", "display_title",
                                   "count_for", "count_against",
                                   "count_abstention">>
                            ELSE <<"c">>
        IN  IF run.error # NoException
            THEN ToolError(<<"SQL error: ", run.error>>, sql_query,
                           <<"connect", sql_query>>, TRUE, run.store)
            ELSE [ret |-> [success |-> TRUE,
                           query |-> sql_query,
                           results |-> run.rows,
                           column_names |-> column_names,
                           row_count |-> Len(run.rows),
                           explanation |->
                              <<"Custom SQL query returned ", Len(run.rows),
                                " rows with columns: ", column_names>>],
                  exc |-> NoException,
                  stmts |-> <<"connect", sql_query>>,
                  open |-> FALSE,
                  store |-> run.store]

ExecuteCustomSql ==
    \E sql_query \in IF Idle THEN SqlQueryArgs
                      ELSE IF op = "execute_custom_sql" THEN {args[1]}
                      ELSE {},
       f \in 0..2 :
        /\ Callable("execute_custom_sql", <<sql_query>>, f)
        /\ \E rows \in AllVotesResults :
               LET o == execute_custom_sql(sql_query, f, rows)
               IN  /\ earlier' = IF Idle THEN NoEarlier
                                 ELSE [called |-> TRUE, ret |-> result,
                                       exc |-> raised]
                   /\ op' = "execute_custom_sql"
                   /\ args' = <<sql_query>>
                   /\ fault' = f
                   /\ result' = o.ret
                   /\ raised' = o.exc
                   /\ stmts' = o.stmts
                   /\ conn_open' = o.open
                   /\ db' = o.store
                   /\ UNCHANGED <<server_vars, runner_vars, scraper>>

\* ---------------------------------------------- runner.py: run_agent events
MaxEvents == 1

\* the events runner.run_async hands to run_agent: a text part, a function
\* response, the final response with text, the final response without
AgentEvents == {"text", "function_response", "final_text", "final_empty"}

\* what run_agent yields for the events: texts and *function_name*; the
\* final response with text is yielded and ends the loop
RECURSIVE RunAgentMessages(_)
RunAgentMessages(events) ==
    IF events = <<>> THEN <<>>
    ELSE CASE Head(events) = "text" ->
                <<"Votes found">> \o RunAgentMessages(Tail(events))
           [] Head(events) = "function_response" ->
                <<"*get_vote_details*">> \o RunAgentMessages(Tail(events))
           [] Head(events) = "final_text" -> <<"The vote passed">>
           [] OTHER -> RunAgentMessages(Tail(events))

\* a run of the agent: its events, and whether it raises after them
AgentRuns ==
    {[events |-> e, raises |-> r] :
        e \in SeqsUpTo(AgentEvents, MaxEvents), r \in BOOLEAN}

\* the loop was left by break: nothing is asked of the runner any more
Broke(events) == "final_text" \in Range(events)

\* -------------------------------------------- main.py: chat.generate_stream
\* json.dumps of a string: the text between quotes
JsonDumps(text) == <<"\"">> \o text \o <<"\"">>

\* len(escaped_message.split())
WordsOf(message) ==
    CASE message = "Votes found" -> 2
      [] message = "The vote passed" -> 3
      [] OTHER -> 1

RECURSIVE WordCount(_)
WordCount(messages) ==
    IF messages = <<>> THEN 0
    ELSE WordsOf(Head(messages)) + WordCount(Tail(messages))

\* str(n) for the numbers that occur
NumberText(n) ==
    CASE n = 0 -> "0" [] n = 1 -> "1" [] n = 2 -> "2" [] n = 3 -> "3"
      [] n = 4 -> "4" [] n = 5 -> "5" [] n = 6 -> "6" [] n = 7 -> "7"
      [] n = 8 -> "8" [] OTHER -> "9+"

\* the text of the finish frames as written in the source, after "d:"
StopTemplate ==
    <<"{{", "\"finishReason\":\"stop\"", ",\"usage\":", "{{",
      "\"promptTokens\":10,\"completionTokens\":", "{word_count}",
      "}}", "}}">>

ErrorTemplate ==
    <<"{{", "\"finishReason\":\"error\"", ",\"usage\":", "{{",
      "\"promptTokens\":0,\"completionTokens\":0", "}}", "}}">>

\* an f-string: doubled braces become single ones, the field its value
FString(template, word_count) ==
    [i \in 1..Len(template) |->
        CASE template[i] = "{{" -> "{"
          [] template[i] = "}}" -> "}"
          [] template[i] = "{word_count}" -> word_count
          [] OTHER -> template[i]]

\* yield f'0:{escaped_message}\n'
MessageFrame(message) ==
    [prefix |-> "0:", payload |-> JsonDumps(<<message, "\\n\\n">>)]

StreamError == "agent run failed"

\* the frames of one response stream.  The finish frame of the error path
\* is a plain string, no f-string: its braces stay doubled
generate_stream(run) ==
    LET messages == RunAgentMessages(run.events)
        sent == [i \in 1..Len(messages) |-> MessageFrame(messages[i])]
    IN  IF run.raises /\ ~Broke(run.events)
        THEN sent \o
             <<[prefix |-> "0:",
                payload |-> JsonDumps(<<"Error: ", StreamError>>)],
               [prefix |-> "d:", payload |-> ErrorTemplate]>>
        ELSE sent \o
             <<[prefix |-> "d:",
                payload |-> FString(StopTemplate,
                                    NumberText(WordCount(messages)))]>>

\* ---------------------------------------- runner.py: run_agent, the session
\* run_agent calls in flight at one time
MaxCalls == 2

\* the (user_id, session_id) pairs the calls come with
RunnerPairs == {<<1, 1>>, <<1, 2>>}

NoCall == [pc |-> "idle", pair |-> <<0, 0>>, session |-> FALSE]

\* generate_stream starts run_agent(session_id, user_id, user_message)
StartRunAgent ==
    \E c \in 1..MaxCalls, pair \in RunnerPairs :
        /\ calls[c].pc = "idle"
        /\ calls' = [calls EXCEPT ![c] = [pc |-> "get_session",
                                          pair |-> pair,
                                          session |-> FALSE]]
        /\ UNCHANGED <<session_service, db, call_vars, server_vars, scraper>>

\* session = await session_service.get_session(...): the session or None
GetSession ==
    \E c \in 1..MaxCalls :
        /\ calls[c].pc = "get_session"
        /\ calls' = [calls EXCEPT
                       ![c].pc = "if_not_session",
                       ![c].session =
                           calls[c].pair \in session_service.sessions]
        /\ UNCHANGED <<session_service, db, call_vars, server_vars, scraper>>

\* if not session: await session_service.create_session(...).  What the
\* service does for a pair it already holds is its own business: it stores
\* the session anew or refuses with an exception
CreateSession ==
    \E c \in 1..MaxCalls, refuses \in BOOLEAN :
        /\ calls[c].pc = "if_not_session"
        /\ ~calls[c].session
        /\ refuses => calls[c].pair \in session_service.sessions
        /\ session_service' =
              [sessions |-> session_service.sessions \cup {calls[c].pair},
               create_calls |->
                  [session_service.create_calls EXCEPT ![calls[c].pair] = @ + 1]]
        /\ calls' = [calls EXCEPT
                       ![c].pc = IF refuses THEN "raised" ELSE "run_async"]
        /\ UNCHANGED <<db, call_vars, server_vars, scraper>>

\* async for event in runner.run_async(...): the agent runs in the session
RunAsync ==
    \E c \in 1..MaxCalls :
        /\ \/ calls[c].pc = "run_async"
           \/ calls[c].pc = "if_not_session" /\ calls[c].session
        /\ calls' = [calls EXCEPT
                       ![c].pc = IF calls[c].pair \in session_service.sessions
                                 THEN "done" ELSE "raised"]
        /\ UNCHANGED <<session_service, db, call_vars, server_vars, scraper>>

\* the generator is exhausted or has raised: the call is over
EndRunAgent ==
    \E c \in 1..MaxCalls :
        /\ calls[c].pc \in {"done", "raised"}
        /\ calls' = [calls EXCEPT ![c] = NoCall]
        /\ UNCHANGED <<session_service, db, call_vars, server_vars, scraper>>

\* one run_agent call from its first line to its last, no other call in
\* between: the session is created if the service does not hold it
SessionsAfterRunAgent(pair) ==
    IF pair \in session_service.sessions THEN session_service
    ELSE [sessions |-> session_service.sessions \cup {pair},
          create_calls |->
             [session_service.create_calls EXCEPT ![pair] = @ + 1]]

\* session_service = InMemorySessionService(): empty at start
RunnerStart ==
    /\ session_service = [sessions |-> {},
                          create_calls |-> [p \in RunnerPairs |-> 0]]
    /\ calls = [c \in 1..MaxCalls |-> NoCall]

\* the streams a chat request may be answered with, one for each run
Streams == {generate_stream(run) : run \in AgentRuns}

\* ------------------------------------------------- main.py: the endpoints
MaxSessions == 20

\* 60 * 15 seconds
SessionTimeout == 900

\* the clock moves in steps of TickSeconds, MaxTicks times
TickSeconds == 600
MaxTicks == 2

\* uuid4 hands out a new id each time: the ids are 1, 2, ... in the order
\* they are handed out, at most MaxIssued of them
MaxIssued == 21

\* the user_ids chat requests come with: 0, which no page was given, and
\* the first id handed out
ChatUserIds == {0, 1}

\* the session_id they come with
ChatSessionIds == {1}

NoResponse == [route |-> "none", status |-> 0, user_id |-> 0, frames |-> <<>>]

\* the sessions left after the purge: stamp + 60 * 15 < now goes
Purged ==
    LET kept == {u \in DOMAIN active_sessions :
                    ~(active_sessions[u] + SessionTimeout < now)}
    IN  [u \in kept |-> active_sessions[u]]

\* GET / that registers a session however many there are
ServeIndexWithoutLimit ==
    \E index_exists \in BOOLEAN :
        /\ issued < MaxIssued
        /\ IF ~index_exists
           THEN /\ response' = [route |-> "index", status |-> 404,
                                user_id |-> 0, frames |-> <<>>]
                /\ UNCHANGED <<active_sessions, issued>>
           ELSE /\ active_sessions' = Put(Purged, issued + 1, now)
                /\ issued' = issued + 1
                /\ response' = [route |-> "index", status |-> 200,
                                user_id |-> issued + 1, frames |-> <<>>]
        /\ UNCHANGED <<now, db, call_vars, runner_vars, scraper>>

\* GET /
ServeIndex ==
    \E index_exists \in BOOLEAN :
        /\ issued < MaxIssued
        /\ IF ~index_exists
           THEN /\ response' = [route |-> "index", status |-> 404,
                                user_id |-> 0, frames |-> <<>>]
                /\ UNCHANGED <<active_sessions, issued>>
           ELSE IF Cardinality(DOMAIN Purged) >= MaxSessions
           THEN /\ active_sessions' = Purged
                /\ response' = [route |-> "index", status |-> 503,
                                user_id |-> 0, frames |-> <<>>]
                /\ UNCHANGED issued
           ELSE /\ active_sessions' = Put(Purged, issued + 1, now)
                /\ issued' = issued + 1
                /\ response' = [route |-> "index", status |-> 200,
                                user_id |-> issued + 1, frames |-> <<>>]
        /\ UNCHANGED <<now, db, call_vars, runner_vars, scraper>>

\* POST /api/chat that takes any user_id for a session
ChatWithoutSessionCheck ==
    \E user_id \in ChatUserIds, session_id \in ChatSessionIds,
       frames \in Streams :
        /\ active_sessions' = Put(active_sessions, user_id, now)
        /\ response' = [route |-> "chat", status |-> 200,
                        user_id |-> user_id, frames |-> frames]
        /\ session_service' = SessionsAfterRunAgent(<<1, session_id>>)
        /\ UNCHANGED <<now, issued, calls, db, call_vars, scraper>>

\* POST /api/chat: the session check, the refresh of the timestamp and the
\* stream sent back, for which run_agent(session_id, user_id, message) is
\* run
Chat ==
    \E user_id \in ChatUserIds, session_id \in ChatSessionIds :
        /\ IF user_id \notin DOMAIN active_sessions
           THEN /\ response' = [route |-> "chat", status |-> 401,
                                user_id |-> user_id, frames |-> <<>>]
                /\ UNCHANGED <<active_sessions, session_service>>
           ELSE \E frames \in Streams :
                /\ active_sessions' = Put(active_sessions, user_id, now)
                /\ response' = [route |-> "chat", status |-> 200,
                                user_id |-> user_id, frames |-> frames]
                /\ session_service' =
                      SessionsAfterRunAgent(<<user_id, session_id>>)
        /\ UNCHANGED <<now, issued, calls, db, call_vars, scraper>>

\* time passes between two requests
Tick ==
    /\ now + TickSeconds <= MaxTicks * TickSeconds
    /\ now' = now + TickSeconds
    /\ UNCHANGED <<active_sessions, issued, response, db, call_vars,
                   runner_vars, scraper>>

\* the server has started: no session, no request yet
ServerStart ==
    /\ active_sessions = EmptyMapping
    /\ now = 0
    /\ issued = 0
    /\ response = NoResponse

\* ------------------------------------------- howTheyVote.py: the scraper
\* the FOREIGN KEY entries of table_schemas
References ==
    [countries |-> {}, groups |-> {}, committees |-> {},
     eurovoc_concepts |-> {}, oeil_subjects |-> {}, geo_areas |-> {},
     members |-> {"countries"},
     votes |-> {},
     group_memberships |-> {"members", "groups"},
     member_votes |-> {"votes", "members"},
     eurovoc_concept_votes |-> {"votes", "eurovoc_concepts"},
     oeil_subject_votes |-> {"votes", "oeil_subjects"},
     geo_area_votes |-> {"votes", "geo_areas"},
     responsible_committee_votes |-> {"votes", "committees"}]

\* an order with a table before the table it refers to
table_creation_order_members_first ==
    <<"members", "countries", "groups", "committees", "eurovoc_concepts",
      "oeil_subjects", "geo_areas", "votes",
      "group_memberships", "member_votes", "eurovoc_concept_votes",
      "oeil_subject_votes", "geo_area_votes", "responsible_committee_votes">>

table_creation_order ==
    <<"countries", "groups", "committees", "eurovoc_concepts",
      "oeil_subjects", "geo_areas",
      "members", "votes",
      "group_memberships", "member_votes", "eurovoc_concept_votes",
      "oeil_subject_votes", "geo_area_votes", "responsible_committee_votes">>

load_order ==
    <<"countries", "groups", "committees", "eurovoc_concepts",
      "oeil_subjects", "geo_areas",
      "members", "votes",
      "group_memberships", "member_votes", "eurovoc_concept_votes",
      "oeil_subject_votes", "geo_area_votes", "responsible_committee_votes">>

\* downloads that fail in one run
MaxDownloadFailures == 1

\* the store file does not exist, no run has been made
NoScrape ==
    scraper = [pc |-> "idle", i |-> 0, created |-> <<>>, attempted |-> <<>>,
               failures |-> 0, tables |-> {}, populated |-> {}]

\* scrape_and_store: the release is looked up; a failed request ends the run
ScrapeAndStore ==
    \E release_found \in BOOLEAN :
        /\ scraper.pc \in {"idle", "done", "failed"}
        /\ scraper' = [scraper EXCEPT
                         !.pc = IF release_found THEN "schema" ELSE "failed",
                         !.i = 1,
                         !.created = <<>>,
                         !.attempted = <<>>,
                         !.failures = 0]
        /\ UNCHANGED <<db, call_vars, server_vars, runner_vars>>

\* with foreign_keys = ON, DROP TABLE deletes the rows first and fails when
\* rows of another table still refer to them (the rows of a populated table
\* refer to the rows of the populated tables it references)
DropFails(table_name) ==
    /\ table_name \in scraper.populated
    /\ \E child \in scraper.populated : table_name \in References[child]

\* create_database_schema, one turn of its loop: DROP TABLE IF EXISTS and
\* CREATE TABLE of the next table; the indexes and the commit follow the
\* last one
CreateTable ==
    /\ scraper.pc = "schema"
    /\ LET table_name == table_creation_order[scraper.i]
       IN  IF DropFails(table_name)
           THEN scraper' = [scraper EXCEPT !.pc = "failed"]
           ELSE scraper' =
                  [scraper EXCEPT
                     !.tables = @ \cup {table_name},
                     !.populated = @ \ {table_name},
                     !.created = Append(@, table_name),
                     !.i = IF scraper.i = Len(table_creation_order)
                           THEN 1 ELSE @ + 1,
                     !.pc = IF scraper.i = Len(table_creation_order)
                            THEN "load" ELSE "schema"]
    /\ UNCHANGED <<db, call_vars, server_vars, runner_vars>>

\* scrape_and_store, one turn of its loop: the file of the next table is
\* downloaded and loaded; a failed download is logged and skipped, any
\* other error ends the run.  The connection of the load does not enforce
\* foreign keys.
LoadTable ==
    \E outcome \in {"loaded", "download failed", "load failed"} :
        /\ scraper.pc = "load"
        /\ outcome = "download failed" =>
              scraper.failures < MaxDownloadFailures
        /\ LET table_name == load_order[scraper.i]
               last == scraper.i = Len(load_order)
           IN  scraper' =
                 [scraper EXCEPT
                    !.attempted = Append(@, table_name),
                    !.populated = IF outcome = "loaded"
                                  THEN @ \cup {table_name} ELSE @,
                    !.failures = IF outcome = "download failed"
                                 THEN @ + 1 ELSE @,
                    !.i = IF last \/ outcome = "load failed" THEN @ ELSE @ + 1,
                    !.pc = IF outcome = "load failed" THEN "failed"
                           ELSE IF last THEN "done" ELSE "load"]
        /\ UNCHANGED <<db, call_vars, server_vars, runner_vars>>

\* ---------------------------------------------------------- specification
InitCall ==
    /\ op = "none"
    /\ args = <<>>
    /\ fault = 0
    /\ result = EmptyMapping
    /\ raised = NoException
    /\ stmts = <<>>
    /\ conn_open = FALSE
    /\ earlier = NoEarlier
    /\ ServerStart
    /\ RunnerStart
    /\ NoScrape


\* (count_for, count_against) of the votes of the controversy stores
CountPairs ==
    <<<<0, 2>>, <<2, 0>>, <<1, 1>>, <<2, 1>>, <<180, 179>>, <<361, 359>>>>

VoteTimestamp(id) == (id + 1) \div 2

\* up to MaxVotes votes, any counts of CountPairs, a pair more than once
\* too; the ids are given in the order of CountPairs
InitControversy ==
    /\ db \in UNION {LET n == k IN
                      {[BaseStore EXCEPT
                          !.votes =
                             {Vote(i, VoteTimestamp(i),
                                   CountPairs[c[i]][1], CountPairs[c[i]][2])
                                : i \in 1..n},
                          !.member_votes = {mv \in @ : mv.vote_id <= n},
                          !.eurovoc_concept_votes =
                             {ecv \in @ : ecv.vote_id <= n}]
                         : c \in {x \in [1..n -> 1..Len(CountPairs)] :
                                    \A i, j \in 1..n : i < j => x[i] <= x[j]}}
                     : k \in 0..MaxVotes}
    /\ InitCall

\* the groups table of the breakdown stores: the EPP row or none, and the
\* row of the non-attached members, whose labels vary, or none
GroupTables ==
    {e \cup n :
        e \in {{}, {Group("EPP", "European People's Party", "EPP")}},
        n \in {{}} \cup {{Group("NI", l, s)} :
                            l \in {"Non-attached", "Non-attached Members"},
                            s \in {"NI", "NA"}}}

StorePositions == {"FOR", "AGAINST"}

StoreGroupCodes == {NULL, "EPP", "NI"}

Absent == <<>>

\* the member_votes rows of vote 1: each member has none or one
\* (PRIMARY KEY (vote_id, member_id))
MemberVoteTables ==
    {{MemberVote(1, m, c[m][1], c[m][2]) : m \in {x \in 1..MaxMember : c[x] # Absent}} :
        c \in [1..MaxMember -> {Absent} \cup (StorePositions \X StoreGroupCodes)]}

InitBreakdown ==
    /\ db \in {[BaseStore EXCEPT !.groups = g, !.member_votes = mv] :
                  g \in GroupTables, mv \in MemberVoteTables}
    /\ InitCall

\* topic stores: two votes, two concepts, any links between them
TopicStores ==
    {[BaseStore EXCEPT
        !.votes = {Vote(1, 1, 1, 1), Vote(2, ts, 2, 1)},
        !.eurovoc_concepts = {Concept("c1", l), Concept("c2", <<"B">>)},
        !.eurovoc_concept_votes =
            {ConceptVote(1, c) : c \in l1} \cup {ConceptVote(2, c) : c \in l2},
        !.distinct_separator = e] :
        ts \in {1, 2}, l \in Labels,
        l1 \in SUBSET {"c1", "c2"}, l2 \in SUBSET {"c1", "c2"},
        e \in BOOLEAN}

\* stores with more matching votes than the search returns
CapStores ==
    {[BaseStore EXCEPT
        !.votes = {Vote(i, i, 0, 1) : i \in 1..CapVotes},
        !.eurovoc_concept_votes = {ConceptVote(i, "c1") : i \in 1..CapVotes},
        !.distinct_separator = e] : e \in BOOLEAN}

InitTopic ==
    /\ db \in TopicStores \cup CapStores
    /\ InitCall

\* member stores: member 1 has up to two group_memberships rows, with or
\* without a group, and a member_votes row for each of the first k votes;
\* member 2 has neither
MembershipRows ==
    {Membership(1, "EPP", 9, 1), Membership(1, NULL, 9, 1),
     Membership(1, NULL, 10, 1), Membership(1, "EPP", 9, 2)}

MembershipTables == {t \in SUBSET MembershipRows : Cardinality(t) <= 2}

MemberPositions == {"FOR", "DID_NOT_VOTE"}

MemberHistoryTables ==
    UNION {LET n == k IN
             {{MemberVote(i, 1, c[i], "EPP") : i \in 1..n} :
                 c \in [1..n -> MemberPositions]}
           : k \in 0..MaxVotes}

MemberStores ==
    {[BaseStore EXCEPT
        !.votes = {Vote(i, VoteTimestamp(i), i, 1) : i \in 1..MaxVotes},
        !.eurovoc_concepts = {Concept("c1", <<"a">>), Concept("c2", <<"B">>)},
        !.eurovoc_concept_votes =
            {ConceptVote(i, IF i % 2 = 1 THEN "c1" ELSE "c2") : i \in 1..MaxVotes},
        !.group_memberships = gm,
        !.member_votes = mv] :
        gm \in MembershipTables, mv \in MemberHistoryTables}

InitMember ==
    /\ db \in MemberStores
    /\ InitCall

Next ==
    \/ ReturnToCaller
    \/ SearchVotesByTopic
    \/ GetCountryVotingPatterns
    \/ SearchMeps
    \/ GetRecentVotes
    \/ GetMepVotingHistory
    \/ GetMepDetails
    \/ GetVoteDetails
    \/ GetGroupVotingBreakdown
    \/ GetControversialVotes

SpecControversy == InitControversy /\ [][Next]_vars

SpecBreakdown == InitBreakdown /\ [][Next]_vars

SpecTopic == InitTopic /\ [][Next]_vars

SpecMember == InitMember /\ [][Next]_vars

\* the SQL tool of the agent over a store of one or two votes
InitAgent ==
    /\ db \in {BaseStore,
               [BaseStore EXCEPT !.votes = {Vote(1, 1, 1, 1), Vote(2, 1, 2, 1)}]}
    /\ InitCall

AgentNext == ExecuteCustomSql \/ ReturnToCaller

SpecAgent == InitAgent /\ [][AgentNext]_vars

\* every part of the system at its start
InitStart ==
    /\ db = BaseStore
    /\ InitCall

ServerNext == ServeIndex \/ Chat \/ Tick

SpecServer == InitStart /\ [][ServerNext]_vars

RunnerNext ==
    \/ StartRunAgent
    \/ GetSession
    \/ CreateSession
    \/ RunAsync
    \/ EndRunAgent

SpecRunner == InitStart /\ [][RunnerNext]_vars

ScraperNext == ScrapeAndStore \/ CreateTable \/ LoadTable

SpecScraper == InitStart /\ [][ScraperNext]_vars

Init == InitBreakdown \/ InitControversy \/ InitTopic \/ InitMember

Spec == Init /\ [][Next]_vars

\* ------------------------------------------------------------------ claims
Called(name) == op = name

VoteIds == {v.id : v \in db.votes}

\* the call got through connect and its first statement
StoreAnswered == fault \notin {1, 2}

\* C1: no exception leaves a query function, and a failure of connect or
\* execute comes back as {"error": "Database error: <message>"}
C1_NoExceptionPropagates ==
    /\ raised = NoException
    /\ (~Idle /\ fault = 1) => result = DbError(ConnectError)
    /\ (~Idle /\ fault = 2) => result = DbError(ExecError)

\* C2: for a vote_id with no row in votes, get_vote_details,
\* get_group_voting_breakdown and get_country_voting_patterns return a
\* mapping whose only key is "error", the breakdown statement is not run,
\* and the value is "Vote <vote_id> not found" (when the store answered the
\* lookup; a store failure is C1's "Database error")
VoteLookups ==
    {"get_vote_details", "get_group_voting_breakdown",
     "get_country_voting_patterns"}

C2_VoteNotFound ==
    (op \in VoteLookups /\ args[1] \notin VoteIds) =>
        /\ DOMAIN result = {"error"}
        /\ "group_breakdown" \notin Range(stmts)
        /\ "country_breakdown" \notin Range(stmts)
        /\ StoreAnswered =>
              result = [error |-> <<"Vote ", args[1], " not found">>]

C2_Witness ==
    /\ Called("get_group_voting_breakdown")
    /\ args = <<999999999>>
    /\ db.votes # {}
    /\ stmts = <<"vote_exists">>
    /\ result = [error |-> <<"Vote ", 999999999, " not found">>]

\* a successful breakdown of an existing vote
GroupBreakdownReturned ==
    Called("get_group_voting_breakdown") /\ "group_breakdown" \in DOMAIN result

PositionCountSum(entry) ==
    SumOver(DOMAIN entry.positions,
            [p \in DOMAIN entry.positions |-> entry.positions[p].count])

PercentageSum(entry) ==
    SumOver(DOMAIN entry.positions,
            [p \in DOMAIN entry.positions |-> entry.positions[p].percentage])

\* C3: the counts of all positions of all groups of the breakdown add up to
\* the number of member_votes rows of the vote
C3_CountsSumToRows ==
    GroupBreakdownReturned =>
        SumOver(DOMAIN result.group_breakdown,
                [g \in DOMAIN result.group_breakdown |->
                    PositionCountSum(result.group_breakdown[g])])
          = Cardinality(VoteRows(args[1]))

\* C4: in every group entry each percentage is count * 100 / total_meps of
\* that entry (rounded to two decimals), so the percentages of the entry add
\* up to 100 but for the rounding of each position
C4_PercentagesPerGroup ==
    GroupBreakdownReturned =>
        \A g \in DOMAIN result.group_breakdown :
            LET entry == result.group_breakdown[g]
            IN  /\ \A p \in DOMAIN entry.positions :
                      entry.positions[p].percentage =
                          Round2Pct(entry.positions[p].count, entry.total_meps)
                /\ Abs(PercentageSum(entry) - 10000)
                      <= Cardinality(DOMAIN entry.positions)

\* C5: when every member_votes row of the vote is FOR, every group entry has
\* the single position FOR, at 100 percent
C5_AllForIsHundred ==
    (GroupBreakdownReturned
       /\ \A mv \in VoteRows(args[1]) : mv.position = "FOR") =>
        \A g \in DOMAIN result.group_breakdown :
            /\ DOMAIN result.group_breakdown[g].positions = {"FOR"}
            /\ result.group_breakdown[g].positions["FOR"].percentage = 10000

\* the rows of the vote whose group_code is NULL or names no row of groups
UnassignedRows(vote_id) == {mv \in VoteRows(vote_id) : JoinedGroup(mv) = {}}

\* C6: every member_votes row of the vote without a group is counted under
\* the entry "Non-attached", whose group_short_name is "NI"; none is dropped
C6_UnassignedUnderNonAttached ==
    (GroupBreakdownReturned /\ UnassignedRows(args[1]) # {}) =>
        /\ "Non-attached" \in DOMAIN result.group_breakdown
        /\ LET entry == result.group_breakdown["Non-attached"]
           IN  /\ entry.group_short_name = "NI"
               /\ \A p \in {mv.position : mv \in UnassignedRows(args[1])} :
                     /\ p \in DOMAIN entry.positions
                     /\ entry.positions[p].count >=
                           Cardinality({mv \in UnassignedRows(args[1]) :
                                           mv.position = p})
               /\ PositionCountSum(entry)
                     >= Cardinality(UnassignedRows(args[1]))

\* a successful ranking
ControversialReturned ==
    Called("get_controversial_votes") /\ "controversial_votes" \in DOMAIN result

ControversialWellFormed ==
    /\ \A i \in 1..Len(result.controversial_votes) :
          /\ result.controversial_votes[i].votes_for > 0
          /\ result.controversial_votes[i].votes_against > 0
    /\ \A i, j \in 1..Len(result.controversial_votes) :
          i < j => result.controversial_votes[i].margin_percentage
                     <= result.controversial_votes[j].margin_percentage
    /\ result.count = Len(result.controversial_votes)

RelativeMarginLess(a, b) ==
    Abs(a.votes_for - a.votes_against) * (b.votes_for + b.votes_against)
      < Abs(b.votes_for - b.votes_against) * (a.votes_for + a.votes_against)

\* C8: the ranking is by relative margin ascending, ties by absolute margin
\* ascending: no vote comes after, or is left out for, a vote of strictly
\* larger relative margin, and of two votes of equal relative margin the one
\* of smaller absolute margin comes first
C8_RankedByRelativeMargin ==
    ControversialReturned =>
        LET ranked == result.controversial_votes
            left_out == {ControversialEntry(v) : v \in ControversialRows}
                          \ Range(ranked)
        IN  /\ \A i, j \in 1..Len(ranked) :
                  i < j =>
                    /\ ~RelativeMarginLess(ranked[j], ranked[i])
                    /\ (~RelativeMarginLess(ranked[i], ranked[j]))
                          => ranked[i].vote_margin <= ranked[j].vote_margin
            /\ \A i \in 1..Len(ranked) : \A e \in left_out :
                  ~RelativeMarginLess(e, ranked[i])

\* a successful topic search
TopicSearchReturned ==
    Called("search_votes_by_topic") /\ "votes" \in DOMAIN result

\* keyword occurs in text as a literal substring, letters compared without
\* case
ContainsIgnoringCase(text, keyword) ==
    \E i \in 0..(Len(text) - Len(keyword)) :
        \A k \in 1..Len(keyword) : Lower(text[i + k]) = Lower(keyword[k])

C10_EmptyMatchIsNotAnError ==
    (Called("search_votes_by_topic") /\ fault = 0
       /\ \A ec \in db.eurovoc_concepts :
             ~Like(ec.label, TopicPattern(args[1]))) =>
        /\ "error" \notin DOMAIN result
        /\ "message" \in DOMAIN result
        /\ "votes" \in DOMAIN result /\ result.votes = <<>>
        /\ "count" \in DOMAIN result /\ result.count = 0

\* the returned votes: no vote_id twice, timestamps non-increasing, each a
\* matching vote, and no matching vote left out is later than a returned one
TopicVotesRecentFirst(topic_keyword) ==
    /\ \A i, j \in 1..Len(result.votes) :
          i < j => /\ result.votes[i].vote_id # result.votes[j].vote_id
                   /\ result.votes[i].timestamp >= result.votes[j].timestamp
    /\ \A i \in 1..Len(result.votes) :
          \E v \in TopicVotes(topic_keyword) : v.id = result.votes[i].vote_id
    /\ \A v \in TopicVotes(topic_keyword) :
          (\A i \in 1..Len(result.votes) : result.votes[i].vote_id # v.id)
             => \A i \in 1..Len(result.votes) :
                   result.votes[i].timestamp >= v.timestamp

\* C11: in the result of search_votes_by_topic each vote_id appears at most
\* once and the votes are in non-increasing timestamp order; when more than
\* 20 votes match, 20 votes are returned and they are the 20 most recent
\* (when the store is reachable: fault = 0)
C11_DedupedRecentFirstCapped ==
    (Called("search_votes_by_topic") /\ fault = 0) =>
        /\ TopicSearchReturned => TopicVotesRecentFirst(args[1])
        /\ Cardinality(TopicVotes(args[1])) > TopicLimit =>
              /\ TopicSearchReturned
              /\ Len(result.votes) = TopicLimit

\* C12: a mapping a query function returns either has the key "error" and
\* no data key, or has the requested data together with "explanation"
C12_ErrorOrExplanation ==
    (~Idle /\ raised = NoException) =>
        \/ DOMAIN result = {"error"}
        \/ "error" \notin DOMAIN result /\ "explanation" \in DOMAIN result

\* C13: when a query function returns or raises, the connection it opened
\* has been closed, on every path
C13_ConnectionClosed == ~Idle => ~conn_open

MemberIds == {m.id : m \in db.members}

MemberLookups == {"get_mep_details", "get_mep_voting_history"}

\* C15: for a member_id with no row in members, get_mep_details and
\* get_mep_voting_history return a mapping whose only key is "error", no
\* statement after the lookup is run, and the value is
\* "MEP with ID <member_id> not found" (when the store answered the lookup)
C15_MemberNotFound ==
    (op \in MemberLookups /\ args[1] \notin MemberIds) =>
        /\ DOMAIN result = {"error"}
        /\ Len(stmts) <= 1
        /\ StoreAnswered =>
              result = [error |-> <<"MEP with ID ", args[1], " not found">>]

C15_Witness ==
    /\ Called("get_mep_details")
    /\ args[1] \notin MemberIds
    /\ db.members # {}
    /\ stmts = <<"member">>
    /\ result = [error |-> <<"MEP with ID ", args[1], " not found">>]

\* a successful profile
MepDetailsReturned ==
    Called("get_mep_details") /\ "current_political_group" \in DOMAIN result

\* C16: for a member with a row in members and no group_memberships row,
\* get_mep_details succeeds with group_name "Non-attached" and a number as
\* participation_rate_percent, whatever member_votes rows the member has
\* (when the store is reachable: fault = 0)
C16_NoMembershipIsNonAttached ==
    (Called("get_mep_details") /\ fault = 0 /\ args[1] \in MemberIds
       /\ MembershipsOf(args[1]) = {}) =>
        /\ MepDetailsReturned
        /\ "error" \notin DOMAIN result
        /\ result.current_political_group.group_name = "Non-attached"
        /\ result.voting_statistics.participation_rate_percent \in Int

C16_Witness ==
    /\ MepDetailsReturned
    /\ MembershipsOf(args[1]) = {}
    /\ Cardinality(MemberVotesOf(args[1])) >= 2
    /\ result.current_political_group.group_name = "Non-attached"
    /\ result.voting_statistics.participation_rate_percent = 0

\* a successful history
HistoryReturned ==
    Called("get_mep_voting_history") /\ "recent_votes" \in DOMAIN result

\* the returned votes are votes of the member, latest first, and the summary
\* counts the positions of the returned votes only
HistoryWellFormed ==
    LET votes == result.recent_votes
        summary == result.voting_pattern_summary
    IN  /\ \A i, j \in 1..Len(votes) :
              i < j => votes[i].timestamp >= votes[j].timestamp
        /\ \A i \in 1..Len(votes) :
              \E mv \in db.member_votes :
                  /\ mv.member_id = args[1]
                  /\ mv.vote_id = votes[i].vote_id
                  /\ mv.position = votes[i].mep_position
        /\ result.votes_analyzed = Len(votes)
        /\ DOMAIN summary = {votes[i].mep_position : i \in 1..Len(votes)}
        /\ \A p \in DOMAIN summary :
              summary[p] = Cardinality({i \in 1..Len(votes) :
                                           votes[i].mep_position = p})
        /\ SumOver(DOMAIN summary, summary) = result.votes_analyzed

MoreRecent(a, b) ==
    \/ a.start_date > b.start_date
    \/ a.start_date = b.start_date /\ a.term > b.term

\* C18: for a member with a group_memberships row, current_political_group
\* describes a row of the member than which no row is more recent
C18_CurrentGroupIsMostRecent ==
    (MepDetailsReturned /\ MembershipsOf(args[1]) # {}) =>
        \E gm \in MembershipsOf(args[1]) :
            /\ result.current_political_group.group_code = gm.group_code
            /\ result.current_political_group.member_since = gm.start_date
            /\ result.current_political_group.membership_end = gm.end_date
            /\ result.current_political_group.parliamentary_term = gm.term
            /\ result.current_political_group.group_name
                  = MembershipGroup(gm, "label")
            /\ \A other \in MembershipsOf(args[1]) : ~MoreRecent(other, gm)

\* two rows with the same start_date: the one of the higher term is current
C18_Witness ==
    /\ MepDetailsReturned
    /\ \E a, b \in MembershipsOf(args[1]) :
          a.start_date = b.start_date /\ a.term < b.term
            /\ result.current_political_group.parliamentary_term = b.term

\* a returned list of recent votes
RecentReturned ==
    Called("get_recent_votes") /\ "recent_votes" \in DOMAIN result

\* RecentVoteRow keeps the timestamp in its second place
RowTimestamp(row) == row[2]

\* C19: get_recent_votes(limit) returns rows of votes, unfiltered, in
\* non-increasing timestamp order, no vote left out being later than a
\* returned one; for a positive limit there are min(limit, number of votes)
\* rows
C19_MostRecentUnclamped ==
    RecentReturned =>
        LET rows == result.recent_votes
            left_out == {RecentVoteRow(v) : v \in db.votes} \ Range(rows)
        IN  /\ Range(rows) \subseteq {RecentVoteRow(v) : v \in db.votes}
            /\ \A i, j \in 1..Len(rows) :
                  i < j => /\ rows[i] # rows[j]
                           /\ RowTimestamp(rows[i]) >= RowTimestamp(rows[j])
            /\ \A r \in Range(rows) : \A o \in left_out :
                  RowTimestamp(r) >= RowTimestamp(o)
            /\ args[1] > 0 =>
                  Len(rows) = IF args[1] < Cardinality(db.votes)
                              THEN args[1] ELSE Cardinality(db.votes)

\* the limit cuts three votes down to the two latest
C19_Witness ==
    /\ RecentReturned
    /\ args = <<2>>
    /\ Cardinality(db.votes) = 3
    /\ Len(result.recent_votes) = 2
    /\ RowTimestamp(result.recent_votes[1]) > RowTimestamp(result.recent_votes[2])

\* C20: no call of a query function changes the store: every step leaves
\* every table as it was
C20_StoreUnchanged == [][db' = db]_vars

\* the store after two calls in a row
C20_Witness ==
    /\ earlier.called
    /\ db.votes # {}
    /\ db.member_votes # {}

\* C28: for a member_id with a row in members, get_mep_details returns a
\* profile without the key "error", whatever group_memberships and
\* member_votes rows the member has (when the store is reachable: fault = 0)
C28_ProfileForEveryMember ==
    (Called("get_mep_details") /\ fault = 0 /\ args[1] \in MemberIds) =>
        /\ MepDetailsReturned
        /\ "error" \notin DOMAIN result

\* C29: participation_rate_percent of a returned profile lies between 0 and
\* 100 (in hundredths of a percent: 0 and 10000), the member's rows with a
\* position other than DID_NOT_VOTE being no more than the votes on or after
\* the earliest start_date
C29_ParticipationWithinHundred ==
    MepDetailsReturned =>
        /\ result.voting_statistics.participation_rate_percent >= 0
        /\ result.voting_statistics.participation_rate_percent <= 10000
        /\ MembershipsOf(args[1]) # {} =>
              Cardinality({mv \in MemberVotesOf(args[1]) :
                              mv.position # "DID_NOT_VOTE"})
                 <= TotalAvailable(args[1])

\* a successful country breakdown
CountryBreakdownReturned ==
    Called("get_country_voting_patterns") /\ "country_breakdown" \in DOMAIN result

\* C30: for a vote_id with a row in votes, total_meps of the countries of
\* country_breakdown add up to the number of member_votes rows of the vote,
\* and each percentage is count * 100 / total_meps of its own country
\* (in hundredths of a percent)
C30_EveryVoteInACountry ==
    CountryBreakdownReturned =>
        LET cb == result.country_breakdown
        IN  /\ SumOver(DOMAIN cb, [c \in DOMAIN cb |-> cb[c].total_meps])
                  = Cardinality(VoteRows(args[1]))
            /\ \A c \in DOMAIN cb : \A p \in DOMAIN cb[c].positions :
                  cb[c].positions[p].percentage
                     = Round2Pct(cb[c].positions[p].count, cb[c].total_meps)

\* the text begins, after white space, with SELECT in either case
BeginsWithSelect(q) ==
    LET t == LeftStrip(q)
    IN  t # <<>> /\ t[1] \in {"select * FROM votes", "SELECT * FROM votes",
                              "SELECT 'created' AS c"}

\* the text holds one of the seven keywords, in either case
HoldsKeyword(q) ==
    \E i \in 1..Len(q) :
        q[i] \in {"SELECT 'created' AS c", "DROP TABLE votes",
                  "delete FROM votes"}

\* the outcome of a call of the SQL tool: the store was reached only with a
\* text that passes the filter, and any other text came back as an error
\* with the text itself, no connection made
ToolGuarded ==
    LET q == args[1]
        allowed == q # NoString /\ BeginsWithSelect(q) /\ ~HoldsKeyword(q)
    IN  /\ stmts # <<>> => allowed
        /\ conn_open => allowed
        /\ ~allowed => /\ "error" \in DOMAIN result
                       /\ result.query = q
                       /\ stmts = <<>>
                       /\ ~conn_open

\* C21: execute_custom_sql hands a text to the store only if, stripped and
\* in upper case, it starts with SELECT and holds none of the seven
\* keywords; any other text is answered with "error" and the text, without
\* a connection; and no call changes the store
C21_OnlyFilteredSelectsReachStore ==
    [][op' = "execute_custom_sql" => (db' = db /\ ToolGuarded')]_vars

\* a SELECT followed by DROP TABLE is turned away before the store is opened
C21_Witness ==
    /\ Called("execute_custom_sql")
    /\ args[1] = <<"SELECT * FROM votes", ";", "DROP TABLE votes">>
    /\ result.error = <<"Query contains forbidden keyword: ", "DROP">>
    /\ stmts = <<>>
    /\ db.votes # {}

\* the tables that precede place i of a sequence of tables
TablesBefore(seq, i) == {seq[j] : j \in 1..(i - 1)}

\* reference tables 1, members and votes 2, junction tables 3
Tier(table_name) ==
    IF table_name \in {"members", "votes"} THEN 2
    ELSE IF References[table_name] = {} THEN 1
    ELSE 3

\* C22: in a run of the scraper every table is created after the tables it
\* references (reference tables, then members and votes, then the junction
\* tables), and the files are loaded in an order that has every table
\* after the tables it references
C22_ParentsFirst ==
    /\ \A i \in 1..Len(scraper.created) :
          References[scraper.created[i]] \subseteq
              TablesBefore(scraper.created, i)
    /\ \A i, j \in 1..Len(scraper.created) :
          i < j => Tier(scraper.created[i]) <= Tier(scraper.created[j])
    /\ \A i \in 1..Len(scraper.attempted) :
          References[scraper.attempted[i]] \subseteq
              TablesBefore(scraper.attempted, i)

\* a run that created and loaded every table
C22_Witness ==
    /\ scraper.pc = "done"
    /\ Len(scraper.created) = Len(table_creation_order)
    /\ scraper.populated = DOMAIN References

\* C23: active_sessions never holds more than 20 entries; a step adds an
\* entry only as GET / answered 200 with fewer than 20 sessions left after
\* the purge, and a 503 adds none
C23_AtMostTwentySessions ==
    /\ [](Cardinality(DOMAIN active_sessions) <= MaxSessions)
    /\ [][(DOMAIN active_sessions' \ DOMAIN active_sessions # {}) =>
             /\ Cardinality(DOMAIN Purged) < MaxSessions
             /\ response'.route = "index"
             /\ response'.status = 200
             /\ DOMAIN active_sessions' =
                   DOMAIN Purged \cup {response'.user_id}]_vars
    /\ [][response'.status = 503 =>
             DOMAIN active_sessions' \subseteq DOMAIN active_sessions]_vars

\* the table is full and the next visitor is turned away
C23_Witness ==
    /\ Cardinality(DOMAIN active_sessions) = MaxSessions
    /\ response.route = "index"
    /\ response.status = 503

\* a step that answers a chat request
ChatStep ==
    /\ response'.route = "chat"
    /\ <<response', active_sessions'>> # <<response, active_sessions>>

\* C24: a chat request with a user_id that is no key of active_sessions
\* gets 401, no stream, and leaves the table as it is; with a key, the
\* timestamp of that session becomes the current time, every other entry
\* staying as it is
C24_UnknownSessionRejected ==
    [][ChatStep =>
          LET u == response'.user_id
          IN  IF u \notin DOMAIN active_sessions
              THEN /\ response'.status = 401
                   /\ response'.frames = <<>>
                   /\ active_sessions' = active_sessions
              ELSE /\ response'.status = 200
                   /\ active_sessions' = [active_sessions EXCEPT ![u] = now]]_vars

\* a request with an id no page was given, while sessions exist
C24_Witness ==
    /\ response.route = "chat"
    /\ response.status = 401
    /\ response.user_id \notin DOMAIN active_sessions
    /\ active_sessions # EmptyMapping

\* C25: a chat request for a session whose timestamp lies more than 15
\* minutes back gets 401
C25_ExpiredSessionRejected ==
    [][ChatStep =>
          LET u == response'.user_id
          IN  (/\ u \in DOMAIN active_sessions
               /\ active_sessions[u] + SessionTimeout < now) =>
                  response'.status = 401]_vars

\* a chat request that was answered with a stream
Streamed == response.route = "chat" /\ response.status = 200

\* the text after "d:" is a JSON object
IsJsonObject(payload) ==
    /\ payload # <<>>
    /\ payload[1] = "{"
    /\ payload[Len(payload)] = "}"
    /\ \A i \in 1..Len(payload) : payload[i] \notin {"{{", "}}"}

\* the finishReason a client reads from a finish frame
FinishReason(frame) ==
    IF ~IsJsonObject(frame.payload) THEN NULL
    ELSE IF "\"finishReason\":\"stop\"" \in Range(frame.payload) THEN "stop"
    ELSE IF "\"finishReason\":\"error\"" \in Range(frame.payload) THEN "error"
    ELSE NULL

\* C26: a response stream ends with its only d: frame, every other frame
\* being a 0: frame before it; the frame has finishReason "error" after a
\* 0: frame with the error text (the run raised) and "stop" otherwise
C26_OneFinishFrameLast ==
    Streamed =>
        LET frames == response.frames
            n == Len(frames)
            failed == /\ n >= 2
                      /\ frames[n - 1] =
                            [prefix |-> "0:",
                             payload |-> JsonDumps(<<"Error: ", StreamError>>)]
        IN  /\ n >= 1
            /\ frames[n].prefix = "d:"
            /\ \A i \in 1..(n - 1) : frames[i].prefix = "0:"
            /\ FinishReason(frames[n]) = IF failed THEN "error" ELSE "stop"

====
